---- MODULE Spec2Model ----
(***************************************************************************)
(* Model of the frostgate verifier pallet: the message ledger              *)
(* (submit_message / verify_message), the nonce tracker, the key registry, *)
(* the program cache with its age-based sweep, and the proof verification  *)
(* engine (verify_proof).                                                  *)
(***************************************************************************)
EXTENDS Integers, Sequences, FiniteSets, TLC

(***************************************************************************)
(* Bounds of the model                                                     *)
(***************************************************************************)
\* number of blocks the clock advances past StartBlock
MaxTicks == 1
\* number of message records the ledger may hold
MaxMessages == 2
\* longest payload of the statements encoded on their own
MaxStatementPayload == 2

(***************************************************************************)
(* Program constants                                                       *)
(***************************************************************************)
\* enum ChainId (lib.rs:26-31)
Ethereum == 0
Polkadot == 1
Solana == 2
Unknown == 255

\* Config constants (lib.rs:75-89)
MaxPayloadSize == 1
MessageDeposit == 1
MaxKeySize == 1
MaxProgramAge == 1

\* timestamp window and largest chain id of verify_proof (verification.rs:63,68)
MaxChainValue == 2
TimestampMin == 1600000000
TimestampMax == 2000000000

\* length of a program hash, [u8; 32]
HashLen == 32

\* u64::MAX. A u64 is written as the integer congruent to it modulo 2^64
\* that lies nearest 0, so that wrapping addition is integer addition:
\* U64Max + 1 = 0.
U64Max == -1

(***************************************************************************)
(* Values                                                                  *)
(***************************************************************************)
\* Option<T>: None is the empty sequence, Some(v) the one-element sequence
None == <<>>
Some(v) == <<v>>
IsSome(o) == Len(o) = 1
Unwrap(o) == o[1]

\* MessageStatus (lib.rs:41-45)
Pending == "Pending"
Verified == "Verified"
Failed == "Failed"
MessageStatus == {Pending, Verified, Failed}

\* DispatchResult: Ok(()) or an error with its name and its data bytes
Ok == <<"Ok">>
Err(name) == <<"Err", name, <<>> >>
ErrBytes(name, bytes) == <<"Err", name, bytes>>
\* the call panicked: the runtime aborts it and discards its writes
Panic == <<"Panic">>

\* VerificationError (verification.rs:11-22): kind and data bytes
VErr(kind) == <<kind, <<>> >>
VSp1Error(bytes) == <<"Sp1Error", bytes>>

\* sequence of n bytes 1, 2, .., n
Bytes(n) == [i \in 1..n |-> i]

(***************************************************************************)
(* Inputs                                                                  *)
(***************************************************************************)
Accounts == {"alice", "bob"}
\* origins: the dispatch layer has checked them (ensure_signed, ensure_root)
Root == "root"
Signed == "alice"

\* the block at which the pallet's storage is still empty
StartBlock == TimestampMin - 1
LastBlock == StartBlock + MaxTicks

GoodPayload == Bytes(MaxPayloadSize)
LongPayload == Bytes(MaxPayloadSize + 1)

\* first byte of a serialized Sp1ProofType is its variant tag
ProofTags == {0}
GoodProof == <<0, 7>>
BadProof == <<9>>
Proofs == {None, Some(<<>>), Some(GoodProof), Some(BadProof)}
CacheSubmitCalls ==
    {"alice"} \X {Polkadot} \X {Ethereum} \X {GoodPayload} \X {Some(GoodProof)}
DepositSubmitCalls ==
    Accounts \X {Polkadot} \X {Ethereum} \X {GoodPayload} \X {None}

\* the submissions tried: <<sender, from_chain, to_chain, payload, proof>>
SubmitCalls ==
    ({"alice"} \X {Polkadot} \X {Ethereum} \X {GoodPayload} \X Proofs)
    \cup ({"alice"} \X {Ethereum} \X {Ethereum} \X {GoodPayload} \X {Some(GoodProof)})
    \cup ({"alice"} \X {Polkadot, Unknown} \X {Ethereum, Unknown} \X {LongPayload} \X {None})
    \cup ({"alice"} \X {Unknown} \X {Ethereum} \X {GoodPayload} \X {None})
    \cup ({"bob"} \X {Polkadot} \X {Unknown} \X {GoodPayload} \X {None})

KeyBytes == {Bytes(0), Bytes(MaxKeySize), Bytes(MaxKeySize + 1)}
Metadatas == {None}
ProgramBytes == {Bytes(1), Bytes(2)}

\* what the SP1 backend may answer: Ok(true), Ok(false), Err(e)
BackendDiag == <<101>>
BackendOutcomes == {<<"Ok", TRUE>>, <<"Ok", FALSE>>, <<"Err", BackendDiag>>}

VARIABLES
    now,              \* T::BlockNumber::current()
    free,             \* free balance of each account (T::Currency)
    reserved,         \* reserved balance of each account (T::Currency)
    Messages,         \* StorageMap hash -> Message
    Nonces,           \* StorageDoubleMap (chain, account) -> u64, ValueQuery
    VerificationKeys, \* StorageMap program hash -> VerificationKeyEntry
    ProgramCache,     \* StorageMap program hash -> ProgramCacheEntry
    ret,              \* the call that is returning: its name and its result
    called,           \* the stored hashes verify_message has been called with
    judged,           \* those of them for which a call reached the engine
    probe             \* a function applied on its own: its inputs, its output

vars == <<now, free, reserved, Messages, Nonces, VerificationKeys, ProgramCache,
          ret, called, judged, probe>>

(***************************************************************************)
(* Storage maps                                                            *)
(***************************************************************************)
EmptyMap == [k \in {} |-> 0]
Insert(map, k, v) == [x \in (DOMAIN map) \cup {k} |-> IF x = k THEN v ELSE map[x]]

(***************************************************************************)
(* Helpers of the pallet                                                   *)
(***************************************************************************)
\* mutant: a digest that leaves the nonce out
hash_of_without_nonce(message) ==
    <<message.from_chain, message.to_chain, message.sender, message.payload,
      0, message.timestamp, message.status, message.proof>>

\* T::Hashing::hash_of(&message): a collision-free digest of all fields
hash_of(message) ==
    <<message.from_chain, message.to_chain, message.sender, message.payload,
      message.nonce, message.timestamp, message.status, message.proof>>

\* a hash no stored message has: Unknown is never a stored origin chain
NoHash == <<Unknown, Unknown, "alice", <<>>, 0, 0, Pending, None>>

\* mutant: the counter is incremented before it is read
get_next_nonce_incremented(nonces, chain_id, account) ==
    LET nonce == nonces[chain_id][account] + 1
    IN  [nonce |-> nonce,
         Nonces |-> [nonces EXCEPT ![chain_id][account] = nonce],
         overflow |-> nonces[chain_id][account] = U64Max]

\* get_next_nonce: the nonce issued, the Nonces map after the call and
\* whether `nonce + 1` overflows. The sum is the wrapped one: what a build
\* without overflow checks stores (U64Max + 1 = 0).
get_next_nonce(nonces, chain_id, account) ==
    LET nonce == nonces[chain_id][account]
    IN  [nonce |-> nonce,
         Nonces |-> [nonces EXCEPT ![chain_id][account] = nonce + 1],
         overflow |-> nonce = U64Max]

\* compute_program_hash: bytes 0 and 1 are the chain ids, the rest is zero
compute_program_hash(message) ==
    [i \in 1..HashLen |-> IF i = 1 THEN message.from_chain
                          ELSE IF i = 2 THEN message.to_chain
                          ELSE 0]

ZeroHash == [i \in 1..HashLen |-> 0]
KeyedHash == compute_program_hash([from_chain |-> Polkadot, to_chain |-> Ethereum])
ProgramHashes == {ZeroHash, KeyedHash}

\* T::Currency::reserve: fails when the free balance is below the amount
can_reserve(fr, who, amount) == fr[who] >= amount

\* mutant: the writes of a failed call are kept
not_transactional(before, after, result) == after

\* #[transactional]: the storage after a call is the call's writes when it
\* returned Ok and the storage before the call when it returned an error
transactional(before, after, result) ==
    IF result = Ok THEN after ELSE before

(***************************************************************************)
(* Proof verification engine (verification.rs)                             *)
(***************************************************************************)
VOk == <<"Ok", <<>> >>

\* bincode::deserialize::<Sp1ProofType>: Some(proof) when the bytes start
\* with a variant tag, None otherwise
deserialize(bytes) ==
    IF Len(bytes) > 0 /\ bytes[1] \in ProofTags THEN Some(bytes) ELSE None

\* sp1_verify_proof and the mapping of its answer (verification.rs:98-102)
map_backend(backend) ==
    IF backend[1] = "Ok"
    THEN IF backend[2] THEN VOk ELSE VErr("VerificationFailed")
    ELSE VSp1Error(backend[2])

\* u64::to_be_bytes. A u64 is written as the integer congruent to it modulo
\* 2^64 that lies nearest 0 (U64Max is -1), so its four high bytes are all 0
\* or all 255 and the four low bytes are the base-256 digits.
to_be_bytes(n) ==
    [i \in 1..8 |-> IF i <= 4 THEN (IF n < 0 THEN 255 ELSE 0)
                    ELSE (n \div (256 ^ (8 - i))) % 256]

\* mutant: the nonce is left out of the statement
input_without_nonce(params) ==
    to_be_bytes(params.from_chain) \o to_be_bytes(params.to_chain)
    \o to_be_bytes(Len(params.payload)) \o params.payload
    \o to_be_bytes(params.timestamp)

\* the `input` vector verify_proof builds (verification.rs:79-92)
input(params) ==
    to_be_bytes(params.from_chain) \o to_be_bytes(params.to_chain)
    \o to_be_bytes(Len(params.payload)) \o params.payload
    \o to_be_bytes(params.nonce) \o to_be_bytes(params.timestamp)

\* the arguments sp1_verify_proof is called with, after the backend handle
\* (verification.rs:98)
sp1_arguments(context, params) ==
    <<Unwrap(deserialize(params.proof)), context.verifying_key>>

\* mutant: the timestamp is not checked
verify_proof_any_timestamp(context, params, backend) ==
    IF Len(params.proof) = 0
    THEN [result |-> VErr("InvalidProofFormat"), invoked |-> FALSE,
          presented |-> <<>>]
    ELSE IF params.from_chain > MaxChainValue \/ params.to_chain > MaxChainValue
    THEN [result |-> VErr("InvalidInput"), invoked |-> FALSE, presented |-> <<>>]
    ELSE IF ~IsSome(deserialize(params.proof))
    THEN [result |-> VErr("InvalidProofFormat"), invoked |-> FALSE,
          presented |-> <<>>]
    ELSE [result |-> map_backend(backend), invoked |-> TRUE,
          presented |-> sp1_arguments(context, params)]

\* mutant: the chain ids are checked before the proof bytes
verify_proof_chain_first(context, params, backend) ==
    IF params.from_chain > MaxChainValue \/ params.to_chain > MaxChainValue
    THEN [result |-> VErr("InvalidInput"), invoked |-> FALSE, presented |-> <<>>]
    ELSE IF Len(params.proof) = 0
    THEN [result |-> VErr("InvalidProofFormat"), invoked |-> FALSE,
          presented |-> <<>>]
    ELSE IF params.timestamp < TimestampMin \/ params.timestamp > TimestampMax
    THEN [result |-> VErr("InvalidInput"), invoked |-> FALSE, presented |-> <<>>]
    ELSE IF ~IsSome(deserialize(params.proof))
    THEN [result |-> VErr("InvalidProofFormat"), invoked |-> FALSE,
          presented |-> <<>>]
    ELSE [result |-> map_backend(backend), invoked |-> TRUE,
          presented |-> sp1_arguments(context, params)]

\* verify_proof: its result, whether it went as far as the backend and what
\* it presented to the backend
verify_proof(context, params, backend) ==
    IF Len(params.proof) = 0
    THEN [result |-> VErr("InvalidProofFormat"), invoked |-> FALSE,
          presented |-> <<>>]
    ELSE IF params.from_chain > MaxChainValue \/ params.to_chain > MaxChainValue
    THEN [result |-> VErr("InvalidInput"), invoked |-> FALSE, presented |-> <<>>]
    ELSE IF params.timestamp < TimestampMin \/ params.timestamp > TimestampMax
    THEN [result |-> VErr("InvalidInput"), invoked |-> FALSE, presented |-> <<>>]
    ELSE IF ~IsSome(deserialize(params.proof))
    THEN [result |-> VErr("InvalidProofFormat"), invoked |-> FALSE,
          presented |-> <<>>]
    ELSE [result |-> map_backend(backend), invoked |-> TRUE,
          presented |-> sp1_arguments(context, params)]

\* verify_message's mapping of a VerificationError to a pallet error
map_error(e) ==
    IF e[1] = "InvalidProofFormat" THEN Err("InvalidProof")
    ELSE IF e[1] = "VerificationFailed" THEN Err("VerificationFailed")
    ELSE IF e[1] = "InvalidInput" THEN Err("InvalidChainId")
    ELSE IF e[1] = "SystemError" THEN Err("VerificationFailed")
    ELSE ErrBytes("Sp1Error", e[2])

(***************************************************************************)
(* Key registry and program cache entries (keys.rs)                        *)
(***************************************************************************)
\* VerificationKeyEntry::new
new_key_entry(program_hash, key_bytes, added_at, metadata) ==
    [program_hash |-> program_hash, key_bytes |-> key_bytes,
     added_at |-> added_at, metadata |-> metadata]

\* mutant: the program hash of the entry is not looked at
validate_key_bytes_only(entry) ==
    IF Len(entry.key_bytes) = 0 THEN <<"Err", "InvalidFormat">>
    ELSE <<"Ok", "">>

\* VerificationKeyEntry::validate
validate(entry) ==
    IF Len(entry.key_bytes) = 0 THEN <<"Err", "InvalidFormat">>
    ELSE IF \A i \in 1..HashLen : entry.program_hash[i] = 0
    THEN <<"Err", "InvalidProgramHash">>
    ELSE <<"Ok", "">>

\* ProgramCacheEntry::new
new_cache_entry(hash, bytes, cached_at) ==
    [hash |-> hash, bytes |-> bytes, cached_at |-> cached_at, use_count |-> 0]

\* u64::saturating_sub
saturating_sub(a, b) == IF a >= b THEN a - b ELSE 0

\* mutant: an entry of exactly the maximum age is kept
keeps_at_max_age(entry, current_block, max_age) ==
    saturating_sub(current_block, entry.cached_at) <= max_age

\* the closure of cleanup_program_cache: does the sweep keep this entry
keeps(entry, current_block, max_age) ==
    saturating_sub(current_block, entry.cached_at) < max_age

\* mutant: the sweep counts a use of every entry it keeps
sweep_touching(cache, current_block, max_age) ==
    [h \in {k \in DOMAIN cache : keeps(cache[k], current_block, max_age)} |->
        [cache[h] EXCEPT !.use_count = @ + 1]]

\* ProgramCache::retain under that closure
sweep(cache, current_block, max_age) ==
    [h \in {k \in DOMAIN cache : keeps(cache[k], current_block, max_age)} |-> cache[h]]

(***************************************************************************)
(* State                                                                   *)
(***************************************************************************)
ChainIds == {Ethereum, Polkadot, Solana, Unknown}

\* the call that is returning: its name, the hash verify_message was given,
\* its result and how far the engine got ("skipped": not called, "rejected":
\* returned before the backend, "invoked": called the backend); NoCall when
\* no call is returning
NoCall == [op |-> "none", hash |-> NoHash, result |-> Ok, engine |-> "skipped"]
Call(op, result) ==
    [op |-> op, hash |-> NoHash, result |-> result, engine |-> "skipped"]
VerifyCall(hash, result, engine) ==
    [op |-> "verify_message", hash |-> hash, result |-> result, engine |-> engine]

\* what the accounts own when the pallet starts: alice can pay two deposits,
\* bob one
GenesisBalance ==
    [a \in Accounts |-> IF a = "alice" THEN 2 * MessageDeposit ELSE MessageDeposit]

\* no function is applied on its own
NoProbe == [stage |-> "none"]

\* the pallet's storage at genesis
Genesis ==
    /\ now = StartBlock
    /\ free = GenesisBalance
    /\ reserved = [a \in Accounts |-> 0]
    /\ Messages = EmptyMap
    /\ Nonces = [c \in ChainIds |-> [a \in Accounts |-> 0]]
    /\ VerificationKeys = EmptyMap
    /\ ProgramCache = EmptyMap
    /\ ret = NoCall
    /\ called = {}
    /\ judged = {}

Init == Genesis /\ probe = NoProbe

(***************************************************************************)
(* Dispatchables (lib.rs)                                                  *)
(***************************************************************************)
\* what submit_message has written when it returns `result`
submit_writes(sender, message, issued, result) ==
    IF result = Ok
    THEN [Nonces |-> issued.Nonces,
          free |-> [free EXCEPT ![sender] = @ - MessageDeposit],
          reserved |-> [reserved EXCEPT ![sender] = @ + MessageDeposit],
          Messages |-> Insert(Messages, hash_of(message), message)]
    ELSE IF result = Err("InsufficientBalance")
    THEN [Nonces |-> issued.Nonces, free |-> free, reserved |-> reserved,
          Messages |-> Messages]
    ELSE [Nonces |-> Nonces, free |-> free, reserved |-> reserved,
          Messages |-> Messages]

\* mutant: the payload bound is not checked
submit_result_unbounded(origin, from_chain, to_chain, payload) ==
    IF from_chain = Unknown \/ to_chain = Unknown THEN Err("InvalidChainId")
    ELSE IF ~can_reserve(free, origin, MessageDeposit) THEN Err("InsufficientBalance")
    ELSE Ok

submit_result(origin, from_chain, to_chain, payload) ==
    IF Len(payload) > MaxPayloadSize THEN Err("PayloadTooLarge")
    ELSE IF from_chain = Unknown \/ to_chain = Unknown THEN Err("InvalidChainId")
    ELSE IF ~can_reserve(free, origin, MessageDeposit) THEN Err("InsufficientBalance")
    ELSE Ok

submit_message(origin, from_chain, to_chain, payload, proof) ==
    LET result  == submit_result(origin, from_chain, to_chain, payload)
        issued  == get_next_nonce(Nonces, from_chain, origin)
        message == [from_chain |-> from_chain, to_chain |-> to_chain,
                    sender |-> origin, payload |-> payload,
                    nonce |-> issued.nonce, timestamp |-> now,
                    status |-> Pending, proof |-> proof]
        before  == [Nonces |-> Nonces, free |-> free, reserved |-> reserved,
                    Messages |-> Messages]
        after   == transactional(before,
                                 submit_writes(origin, message, issued, result),
                                 result)
        \* get_next_nonce is reached once the payload and the chains are
        \* accepted; on overflow the build decides: with overflow checks
        \* `nonce + 1` panics, without them it wraps
        reached == result \notin {Err("PayloadTooLarge"), Err("InvalidChainId")}
        builds  == IF reached /\ issued.overflow THEN BOOLEAN ELSE {FALSE}
    IN  /\ result = Ok => Cardinality(DOMAIN Messages) < MaxMessages
        /\ \E overflow_checks \in builds :
              IF overflow_checks
              THEN /\ ret' = Call("submit_message", Panic)
                   /\ UNCHANGED <<Nonces, free, reserved, Messages>>
              ELSE /\ Nonces' = after.Nonces
                   /\ free' = after.free
                   /\ reserved' = after.reserved
                   /\ Messages' = after.Messages
                   /\ ret' = Call("submit_message", result)
        /\ UNCHANGED <<now, VerificationKeys, ProgramCache, called, judged, probe>>

\* the VerificationContext and VerificationParams verify_message builds
context_of(message) ==
    [verifying_key |-> VerificationKeys[compute_program_hash(message)].key_bytes,
     program_hash |-> compute_program_hash(message)]
params_of(message) ==
    [proof |-> Unwrap(message.proof), payload |-> message.payload,
     from_chain |-> message.from_chain, to_chain |-> message.to_chain,
     nonce |-> message.nonce, timestamp |-> message.timestamp]

\* mutant: the proof of a verified message is dropped from its record
engine_outcome_dropping_proof(message, v) ==
    IF v.result = VOk
    THEN [stored |-> [message EXCEPT !.status = Verified, !.proof = None],
          result |-> Ok, engine |-> "invoked"]
    ELSE [stored |-> [message EXCEPT !.status = Failed],
          result |-> map_error(v.result),
          engine |-> IF v.invoked THEN "invoked" ELSE "rejected"]

\* what a call does to a message once the engine has answered `v`
engine_outcome(message, v) ==
    IF v.result = VOk
    THEN [stored |-> [message EXCEPT !.status = Verified], result |-> Ok,
          engine |-> "invoked"]
    ELSE [stored |-> [message EXCEPT !.status = Failed],
          result |-> map_error(v.result),
          engine |-> IF v.invoked THEN "invoked" ELSE "rejected"]

\* mutant: the write of Failed is lost when the call returns an error
verify_outcome_rolled_back(message, backend) ==
    LET out == engine_outcome(message,
                   verify_proof(context_of(message), params_of(message), backend))
    IN  IF ~IsSome(message.proof)
        THEN [stored |-> message, result |-> Ok, engine |-> "skipped"]
        ELSE IF compute_program_hash(message) \notin DOMAIN VerificationKeys
        THEN [stored |-> message, result |-> Err("InvalidKey"), engine |-> "skipped"]
        ELSE IF out.result = Ok THEN out
        ELSE [out EXCEPT !.stored = message]

\* mutant: only a failure of the backend itself marks the message Failed
verify_outcome_upstream_untouched(message, backend) ==
    LET out == engine_outcome(message,
                   verify_proof(context_of(message), params_of(message), backend))
    IN  IF ~IsSome(message.proof)
        THEN [stored |-> message, result |-> Ok, engine |-> "skipped"]
        ELSE IF compute_program_hash(message) \notin DOMAIN VerificationKeys
        THEN [stored |-> message, result |-> Err("InvalidKey"), engine |-> "skipped"]
        ELSE IF out.engine = "rejected" THEN [out EXCEPT !.stored = message]
        ELSE out

\* mutant: a message without a proof is marked Failed
verify_outcome_proof_required(message, backend) ==
    LET out == engine_outcome(message,
                   verify_proof(context_of(message), params_of(message), backend))
    IN  IF ~IsSome(message.proof)
        THEN [stored |-> [message EXCEPT !.status = Failed],
              result |-> Err("InvalidProof"), engine |-> "rejected"]
        ELSE IF compute_program_hash(message) \notin DOMAIN VerificationKeys
        THEN [stored |-> message, result |-> Err("InvalidKey"), engine |-> "skipped"]
        ELSE out

\* mutant: a message whose key is missing is marked Failed
verify_outcome_key_required(message, backend) ==
    IF ~IsSome(message.proof)
    THEN [stored |-> message, result |-> Ok, engine |-> "skipped"]
    ELSE IF compute_program_hash(message) \notin DOMAIN VerificationKeys
    THEN [stored |-> [message EXCEPT !.status = Failed],
          result |-> Err("InvalidKey"), engine |-> "rejected"]
    ELSE engine_outcome(message,
             verify_proof(context_of(message), params_of(message), backend))

\* the message as verify_message stores it back, the call's result and how
\* far the engine got
verify_outcome(message, backend) ==
    IF ~IsSome(message.proof)
    THEN [stored |-> message, result |-> Ok, engine |-> "skipped"]
    ELSE IF compute_program_hash(message) \notin DOMAIN VerificationKeys
    THEN [stored |-> message, result |-> Err("InvalidKey"), engine |-> "skipped"]
    ELSE engine_outcome(message,
             verify_proof(context_of(message), params_of(message), backend))

\* mutant: a Failed message may be verified again
ensure_not_verified(message) == message.status # Verified

\* ensure!(message.status == MessageStatus::Pending, ..)
ensure_pending(message) == message.status = Pending

verify_message(origin, message_hash, backend) ==
    /\ UNCHANGED <<now, free, reserved, Nonces, VerificationKeys, ProgramCache,
                   probe>>
    /\ called' = called \cup ({message_hash} \cap DOMAIN Messages)
    /\ IF message_hash \notin DOMAIN Messages
       THEN /\ ret' = VerifyCall(message_hash, Err("MessageNotFound"), "skipped")
            /\ UNCHANGED <<Messages, judged>>
       ELSE IF ~ensure_pending(Messages[message_hash])
       THEN /\ ret' = VerifyCall(message_hash, Err("InvalidStatusTransition"),
                                 "skipped")
            /\ UNCHANGED <<Messages, judged>>
       ELSE LET out == verify_outcome(Messages[message_hash], backend)
            IN  /\ Messages' = IF out.engine = "skipped" THEN Messages
                               ELSE Insert(Messages, message_hash, out.stored)
                /\ judged' = IF out.engine = "skipped" THEN judged
                             ELSE judged \cup {message_hash}
                /\ ret' = VerifyCall(message_hash, out.result, out.engine)

\* mutant: the entry is stored without being validated
add_verification_key_unvalidated(origin, program_hash, key_bytes, metadata) ==
    LET key_entry == new_key_entry(program_hash, key_bytes, now, metadata)
        result == IF Len(key_bytes) > MaxKeySize THEN Err("KeyTooLarge") ELSE Ok
    IN  /\ VerificationKeys' = IF result = Ok
                               THEN Insert(VerificationKeys, program_hash, key_entry)
                               ELSE VerificationKeys
        /\ ret' = Call("add_verification_key", result)
        /\ UNCHANGED <<now, free, reserved, Messages, Nonces, ProgramCache, called, judged, probe>>

add_verification_key(origin, program_hash, key_bytes, metadata) ==
    LET key_entry == new_key_entry(program_hash, key_bytes, now, metadata)
        result == IF Len(key_bytes) > MaxKeySize THEN Err("KeyTooLarge")
                  ELSE IF validate(key_entry)[1] # "Ok" THEN Err("InvalidKey")
                  ELSE Ok
    IN  /\ VerificationKeys' = IF result = Ok
                               THEN Insert(VerificationKeys, program_hash, key_entry)
                               ELSE VerificationKeys
        /\ ret' = Call("add_verification_key", result)
        /\ UNCHANGED <<now, free, reserved, Messages, Nonces, ProgramCache, called, judged, probe>>

cache_program(origin, program_hash, program_bytes) ==
    LET entry == new_cache_entry(program_hash, program_bytes, now)
        result == Ok
    IN  /\ ProgramCache' = IF result = Ok
                           THEN Insert(ProgramCache, program_hash, entry)
                           ELSE ProgramCache
        /\ ret' = Call("cache_program", result)
        /\ UNCHANGED <<now, free, reserved, Messages, Nonces, VerificationKeys, called, judged, probe>>

cleanup_program_cache ==
    /\ ProgramCache' = sweep(ProgramCache, now, MaxProgramAge)
    /\ ret' = Call("cleanup_program_cache", Ok)
    /\ UNCHANGED <<now, free, reserved, Messages, Nonces, VerificationKeys, called, judged, probe>>

\* the host produces the next block
Tick ==
    /\ now < LastBlock
    /\ now' = now + 1
    /\ UNCHANGED <<free, reserved, Messages, Nonces, VerificationKeys, ProgramCache,
                   ret, called, judged, probe>>

\* a transfer from outside: an account that cannot pay the deposit receives
\* the amount of one
Endow(who) ==
    /\ free[who] < MessageDeposit
    /\ free' = [free EXCEPT ![who] = @ + MessageDeposit]
    /\ UNCHANGED <<now, reserved, Messages, Nonces, VerificationKeys, ProgramCache,
                   ret, called, judged, probe>>

\* the call returns its result to the caller
Return ==
    /\ ret # NoCall
    /\ ret' = NoCall
    /\ UNCHANGED <<now, free, reserved, Messages, Nonces, VerificationKeys,
                   ProgramCache, called, judged, probe>>

\* calls are applied one after the other
Idle == ret = NoCall

\* the calls made with submissions drawn from `submits` and programs cached
\* under the hashes of `cached` with the bytes of `programs`
NextWith(submits, cached, programs) ==
    \/ Idle /\ \E c \in submits : submit_message(c[1], c[2], c[3], c[4], c[5])
    \/ Idle /\ \E h \in (DOMAIN Messages) \cup {NoHash}, b \in BackendOutcomes :
          verify_message(Signed, h, b)
    \/ Idle /\ \E ph \in ProgramHashes, k \in KeyBytes, m \in Metadatas :
          add_verification_key(Root, ph, k, m)
    \/ Idle /\ \E ph \in cached, b \in programs :
          cache_program(Root, ph, b)
    \/ Idle /\ cleanup_program_cache
    \/ Idle /\ Tick
    \/ Return

\* the ledger: every kind of submission, one cached program
Next == NextWith(SubmitCalls, {KeyedHash}, {Bytes(1)})

Spec == Init /\ [][Next]_vars

\* the program cache: several cached programs, one kind of submission
NextCache == NextWith(CacheSubmitCalls, ProgramHashes, ProgramBytes)

SpecCache == Init /\ [][NextCache]_vars

\* the deposit: accounts run out of funds and are funded again
NextDeposit ==
    \/ NextWith(DepositSubmitCalls, {KeyedHash}, {Bytes(1)})
    \/ Idle /\ \E a \in Accounts : Endow(a)

SpecDeposit == Init /\ [][NextDeposit]_vars

\* the key registry: keys under several hashes, with several key bytes and
\* metadata, registered and registered again
TailHash == [i \in 1..HashLen |-> IF i = HashLen THEN 1 ELSE 0]
RegistryCalls == {ZeroHash, TailHash} \X {Bytes(0), <<5>>} \X {None, Some(<<3>>)}
RegistrySubmitCalls ==
    {"alice"} \X {Polkadot} \X {Ethereum} \X {GoodPayload} \X {None}

NextRegistry ==
    \/ NextWith(RegistrySubmitCalls, {KeyedHash}, {Bytes(1)})
    \/ Idle /\ \E c \in RegistryCalls : add_verification_key(Root, c[1], c[2], c[3])

SpecRegistry == Init /\ [][NextRegistry]_vars

\* the statement encoding on its own: two parameter records are drawn and
\* the `input` vector of each is built
StatementPayloads == UNION {[1..n -> {0, 1}] : n \in 0..MaxStatementPayload}
Statements ==
    [proof : {GoodProof}, payload : StatementPayloads,
     from_chain : {Ethereum, Polkadot}, to_chain : {Ethereum, Polkadot},
     nonce : {0, 256, U64Max}, timestamp : {TimestampMin, TimestampMin + 1}]

InitStatement ==
    /\ Genesis
    /\ probe \in [stage : {"drawn"}, left : Statements, right : Statements,
                  left_input : {<<>>}, right_input : {<<>>}]

BuildInput ==
    /\ probe.stage = "drawn"
    /\ probe' = [probe EXCEPT !.stage = "built",
                              !.left_input = input(probe.left),
                              !.right_input = input(probe.right)]
    /\ UNCHANGED <<now, free, reserved, Messages, Nonces, VerificationKeys,
                   ProgramCache, ret, called, judged>>

NextStatement == BuildInput

SpecStatement == InitStatement /\ [][NextStatement]_vars

\* the engine on its own: verify_proof is called with parameters a stored
\* message cannot have as well, and its result is mapped as verify_message
\* maps it; every VerificationError is mapped, also those verify_proof does
\* not return
ProgramDiag == <<102>>
InputDiag == <<103>>
EngineBackendOutcomes ==
    BackendOutcomes \cup {<<"Err", ProgramDiag>>, <<"Err", InputDiag>>}
EngineParams ==
    [proof : {<<>>, GoodProof, BadProof}, payload : {GoodPayload},
     from_chain : {Ethereum, MaxChainValue, MaxChainValue + 1, Unknown},
     to_chain : {Ethereum, MaxChainValue + 1},
     nonce : {0},
     timestamp : {TimestampMin - 1, TimestampMin, TimestampMax, TimestampMax + 1}]
EngineContext == [verifying_key |-> Bytes(MaxKeySize), program_hash |-> KeyedHash]
VerificationErrors ==
    {VErr("InvalidProofFormat"), VErr("VerificationFailed"), VErr("InvalidInput"),
     VErr("SystemError"), VSp1Error(BackendDiag)}
NotRun == [result |-> VOk, invoked |-> FALSE, presented |-> <<>>]

InitEngine ==
    /\ Genesis
    /\ probe \in
          [stage : {"drawn"}, params : EngineParams, backend : EngineBackendOutcomes,
           out : {NotRun}, error : {VOk}, surfaced : {Ok}]
          \cup
          [stage : {"raised"}, params : {[proof |-> <<>>]}, backend : {<<"Ok", TRUE>>},
           out : {NotRun}, error : VerificationErrors, surfaced : {Ok}]

\* verify_proof is called and its result is matched as in verify_message
RunEngine ==
    /\ probe.stage = "drawn"
    /\ LET out == verify_proof(EngineContext, probe.params, probe.backend)
       IN  probe' = [probe EXCEPT !.stage = "returned",
                                  !.out = out,
                                  !.error = out.result,
                                  !.surfaced = IF out.result = VOk THEN Ok
                                               ELSE map_error(out.result)]
    /\ UNCHANGED <<now, free, reserved, Messages, Nonces, VerificationKeys,
                   ProgramCache, ret, called, judged>>

\* the Err arm of verify_message maps a VerificationError
SurfaceError ==
    /\ probe.stage = "raised"
    /\ probe' = [probe EXCEPT !.stage = "surfaced",
                              !.surfaced = map_error(probe.error)]
    /\ UNCHANGED <<now, free, reserved, Messages, Nonces, VerificationKeys,
                   ProgramCache, ret, called, judged>>

NextEngine == RunEngine \/ SurfaceError

SpecEngine == InitEngine /\ [][NextEngine]_vars

\* the nonce tracker at the end of its range: alice's counter on Polkadot
\* is one below u64::MAX (the records of her earlier messages are left out)
NearOverflow ==
    [c \in ChainIds |->
        [a \in Accounts |-> IF c = Polkadot /\ a = "alice" THEN U64Max - 1 ELSE 0]]

InitOverflow ==
    /\ now = StartBlock
    /\ free = GenesisBalance
    /\ reserved = [a \in Accounts |-> 0]
    /\ Messages = EmptyMap
    /\ Nonces = NearOverflow
    /\ VerificationKeys = EmptyMap
    /\ ProgramCache = EmptyMap
    /\ ret = NoCall
    /\ called = {}
    /\ judged = {}
    /\ probe = NoProbe

NextOverflow == NextWith(RegistrySubmitCalls, {KeyedHash}, {Bytes(1)})

SpecOverflow == InitOverflow /\ [][NextOverflow]_vars

(***************************************************************************)
(* Claims                                                                  *)
(***************************************************************************)
Terminal(h) == Messages[h].status \in {Verified, Failed}
InvalidStatusTransition == Err("InvalidStatusTransition")

\* a step in which verify_message(h) is called and returns
VerifyStep(h) == ret = NoCall /\ ret'.op = "verify_message" /\ ret'.hash = h

\* C1: once the status of a stored message is Verified or Failed, no call
\* changes its status or any other field of its record, and the record stays
\* stored.
C1_TerminalIsImmutable ==
    [][\A h \in DOMAIN Messages :
          Terminal(h) => /\ h \in DOMAIN Messages'
                         /\ Messages'[h] = Messages[h]]_vars

\* C1 witness: a terminal message on which verify_message was called again
\* and was refused.
C1_Witness ==
    /\ ret.op = "verify_message"
    /\ ret.hash \in DOMAIN Messages
    /\ Terminal(ret.hash)
    /\ ret.result = InvalidStatusTransition

\* C2 as stated: whenever verify_message is called on a stored hash it was
\* called on before, the call fails with InvalidStatusTransition, whatever
\* the earlier call's outcome.
C2_SecondVerifyAlwaysRefused ==
    [][\A h \in called : VerifyStep(h) => ret'.result = InvalidStatusTransition]_vars

\* C2 amended: a verify_message on a stored hash it was called on before
\* fails with InvalidStatusTransition if and only if an earlier call reached
\* the engine; after a proofless or missing-key call the message is still
\* Pending and the next call is handled like a first one.
C2_SecondVerifyRefusedIffJudged ==
    [][\A h \in called :
          VerifyStep(h) =>
             /\ (h \in judged <=> ret'.result = InvalidStatusTransition)
             /\ (h \notin judged => Messages[h].status = Pending)]_vars

\* C2 witness: the second call on a message the engine has judged, refused.
C2_Witness ==
    /\ ret.op = "verify_message"
    /\ ret.hash \in judged
    /\ ret.result = InvalidStatusTransition
    /\ Messages[ret.hash].status = Failed

\* the nonces of the stored messages of (origin chain, sender)
NoncesOf(c, a) ==
    {Messages[h].nonce :
        h \in {k \in DOMAIN Messages :
                  Messages[k].from_chain = c /\ Messages[k].sender = a}}
MessagesOf(c, a) ==
    {k \in DOMAIN Messages : Messages[k].from_chain = c /\ Messages[k].sender = a}

\* C3: for every (origin chain, sender) the successful submissions so far
\* carry the nonces 0, 1, .., n-1, one each, where n is the pair's counter:
\* the first gets 0, each later one the previous nonce + 1, whatever other
\* senders, other chains and failed submissions did in between.
C3_NoncesConsecutive ==
    \A c \in ChainIds, a \in Accounts :
        /\ NoncesOf(c, a) = 0..(Nonces[c][a] - 1)
        /\ Cardinality(MessagesOf(c, a)) = Nonces[c][a]

\* C3 witness: alice's second message on Polkadot, stamped 1 after 0.
C3_Witness ==
    /\ ret.op = "submit_message"
    /\ ret.result = Ok
    /\ NoncesOf(Polkadot, "alice") = {0, 1}
    /\ Nonces[Polkadot]["bob"] = 0

\* a step in which submit_message is called with the arguments c
SubmitStep(c) == Idle /\ submit_message(c[1], c[2], c[3], c[4], c[5])
AllSubmitCalls == SubmitCalls \cup CacheSubmitCalls \cup DepositSubmitCalls

\* a Pending message with a proof whose key is registered
Verifiable(h) ==
    /\ Messages[h].status = Pending
    /\ IsSome(Messages[h].proof)
    /\ compute_program_hash(Messages[h]) \in DOMAIN VerificationKeys

\* C4: when verify_message runs on a Pending message with a proof and a
\* registered key, an engine error leaves the stored status Failed and the
\* call returns an error; an engine success leaves it Verified and the call
\* returns Ok.
C4_EngineOutcomePersisted ==
    [][\A h \in DOMAIN Messages, b \in BackendOutcomes :
          (Idle /\ verify_message(Signed, h, b) /\ Verifiable(h)) =>
             LET v == verify_proof(context_of(Messages[h]), params_of(Messages[h]), b)
             IN  IF v.result = VOk
                 THEN Messages'[h].status = Verified /\ ret'.result = Ok
                 ELSE Messages'[h].status = Failed /\ ret'.result # Ok]_vars

\* C4 witness: a call that returned the backend's error and left Failed.
C4_Witness ==
    /\ ret.op = "verify_message"
    /\ ret.engine = "invoked"
    /\ ret.result = ErrBytes("Sp1Error", BackendDiag)
    /\ Messages[ret.hash].status = Failed

\* the engine returns before it invokes the backend
UpstreamRejects(params) ==
    \/ Len(params.proof) = 0
    \/ params.from_chain > MaxChainValue \/ params.to_chain > MaxChainValue
    \/ params.timestamp < TimestampMin \/ params.timestamp > TimestampMax
    \/ ~IsSome(deserialize(params.proof))

\* C5 as stated: a verify_message that does not get as far as invoking the
\* backend leaves the stored messages as they were.
C5_UpstreamFailureLeavesPending ==
    [][\A h \in DOMAIN Messages :
          (VerifyStep(h) /\ ret'.engine # "invoked") => Messages' = Messages]_vars

\* C5 amended: when the engine rejects the call before the backend (empty
\* proof, timestamp outside the window, proof that does not deserialize) the
\* message is stored as Failed, with no other field changed, and the call
\* returns an error; the stored messages are left as they were only when the
\* engine is not called at all.
C5_UpstreamFailureMarksFailed ==
    [][\A h \in DOMAIN Messages, b \in BackendOutcomes :
          (Idle /\ verify_message(Signed, h, b)) =>
             /\ (Verifiable(h) /\ UpstreamRejects(params_of(Messages[h]))) =>
                   /\ Messages' = Insert(Messages, h,
                                         [Messages[h] EXCEPT !.status = Failed])
                   /\ ret'.result \in {Err("InvalidProof"), Err("InvalidChainId")}
                   /\ ret'.engine = "rejected"
             /\ ~Verifiable(h) => Messages' = Messages /\ ret'.engine = "skipped"]_vars

\* C5 witness: a proof that does not deserialize, submitted inside the
\* timestamp window, rejected before the backend and stored as Failed.
C5_Witness ==
    /\ ret.op = "verify_message"
    /\ ret.engine = "rejected"
    /\ ret.result = Err("InvalidProof")
    /\ Messages[ret.hash].proof = Some(BadProof)
    /\ Messages[ret.hash].timestamp >= TimestampMin
    /\ Messages[ret.hash].status = Failed

\* C6: verify_message on a Pending message without a proof returns Ok and
\* changes no store and no balance, however often it is repeated and whether
\* or not a key is registered for its program hash.
C6_ProoflessVerifyIsNoop ==
    [][\A h \in DOMAIN Messages :
          (VerifyStep(h) /\ Messages[h].status = Pending /\ ~IsSome(Messages[h].proof)) =>
             /\ ret'.result = Ok
             /\ UNCHANGED <<Messages, Nonces, VerificationKeys, ProgramCache,
                            free, reserved>>]_vars

\* C6 witness: such a call returning Ok with the key of the message's
\* program hash registered.
C6_Witness ==
    /\ ret.op = "verify_message"
    /\ ret.result = Ok
    /\ ret.hash \in DOMAIN Messages
    /\ ~IsSome(Messages[ret.hash].proof)
    /\ Messages[ret.hash].status = Pending
    /\ compute_program_hash(Messages[ret.hash]) \in DOMAIN VerificationKeys

\* C7: a submit_message whose payload is longer than MaxPayloadSize fails
\* with PayloadTooLarge and changes no store and no balance; so every stored
\* message has a payload of at most MaxPayloadSize bytes.
C7_PayloadTooLargeLeavesNoTrace ==
    /\ [](\A h \in DOMAIN Messages : Len(Messages[h].payload) <= MaxPayloadSize)
    /\ [][\A c \in AllSubmitCalls :
             (SubmitStep(c) /\ Len(c[4]) > MaxPayloadSize) =>
                /\ ret'.result = Err("PayloadTooLarge")
                /\ UNCHANGED <<Messages, Nonces, VerificationKeys, ProgramCache,
                               free, reserved>>]_vars

\* C7 witness: a refused submission while a message is stored.
C7_Witness ==
    /\ ret.op = "submit_message"
    /\ ret.result = Err("PayloadTooLarge")
    /\ DOMAIN Messages # {}

\* C8: a submit_message that passes the input checks but whose sender cannot
\* pay the deposit returns an error and leaves Messages, Nonces and the
\* balances as they were, and every successful submit_message is stamped
\* with the counter as it was before the call: the sender's next successful
\* submission gets the nonce the failed one had been issued.
C8_FailedReserveRollsBack ==
    [][\A c \in AllSubmitCalls :
          SubmitStep(c) =>
             /\ (/\ Len(c[4]) <= MaxPayloadSize
                 /\ c[2] # Unknown /\ c[3] # Unknown
                 /\ free[c[1]] < MessageDeposit) =>
                   /\ ret'.result = Err("InsufficientBalance")
                   /\ UNCHANGED <<Messages, Nonces, free, reserved>>
             /\ ret'.result = Ok =>
                   \E h \in (DOMAIN Messages') \ (DOMAIN Messages) :
                      /\ Messages'[h].nonce = Nonces[c[2]][c[1]]
                      /\ Nonces'[c[2]][c[1]] = Nonces[c[2]][c[1]] + 1]_vars

\* C8 witness: bob, who has one message and no funds left, is refused; his
\* counter is 1 as before the call and no second message is stored.
C8_Witness ==
    /\ ret.op = "submit_message"
    /\ ret.result = Err("InsufficientBalance")
    /\ NoncesOf(Polkadot, "bob") = {0}
    /\ Nonces[Polkadot]["bob"] = 1
    /\ free["bob"] = 0

\* a step in which cleanup_program_cache runs
CleanupStep == ret = NoCall /\ ret'.op = "cleanup_program_cache"

\* C9: after cleanup_program_cache has run at block `now`, an entry cached at
\* t0 <= now is still present if and only if now - t0 < MaxProgramAge, and
\* the sweep adds no entry.
C9_SweepKeepsExactlyTheYoung ==
    [][CleanupStep =>
          /\ DOMAIN ProgramCache' \subseteq DOMAIN ProgramCache
          /\ \A h \in DOMAIN ProgramCache :
                /\ ProgramCache[h].cached_at <= now
                /\ h \in DOMAIN ProgramCache' <=>
                      now - ProgramCache[h].cached_at < MaxProgramAge]_vars

\* C9 witness: a sweep that has left one program, cached in this block, and
\* has left none under the other hash.
C9_Witness ==
    /\ ret.op = "cleanup_program_cache"
    /\ now > StartBlock
    /\ DOMAIN ProgramCache = {KeyedHash}
    /\ ProgramCache[KeyedHash].cached_at = now

\* C10: a second cleanup_program_cache at the same block changes nothing
\* more; the entries a sweep keeps keep their bytes, cached_at and
\* use_count; a sweep leaves Messages, Nonces and VerificationKeys as they
\* were; and no call ever removes a verification key.
C10_SweepIdempotentAndFramed ==
    /\ [][CleanupStep =>
             /\ sweep(ProgramCache', now', MaxProgramAge) = ProgramCache'
             /\ \A h \in DOMAIN ProgramCache' : ProgramCache'[h] = ProgramCache[h]
             /\ UNCHANGED <<Messages, Nonces, VerificationKeys>>]_vars
    /\ [][DOMAIN VerificationKeys \subseteq DOMAIN VerificationKeys']_vars

\* C10 witness: a sweep at the block after a key was registered and a
\* program cached: the key is still there, the program is gone.
C10_Witness ==
    /\ ret.op = "cleanup_program_cache"
    /\ KeyedHash \in DOMAIN VerificationKeys
    /\ now - VerificationKeys[KeyedHash].added_at >= MaxProgramAge
    /\ DOMAIN Messages # {}
    /\ ProgramCache = EmptyMap

\* a step in which add_verification_key is called with the arguments c
AddKeyStep(c) ==
    /\ Idle
    /\ ret'.op = "add_verification_key"
    /\ add_verification_key(Root, c[1], c[2], c[3])
AllAddKeyCalls == (ProgramHashes \X KeyBytes \X Metadatas) \cup RegistryCalls
NonZero(ph) == \E i \in 1..HashLen : ph[i] # 0

\* C11: add_verification_key refuses an all-zero program hash and empty key
\* bytes and then leaves VerificationKeys as it was; for a hash with a
\* non-zero byte and 1..MaxKeySize key bytes it returns Ok and the entry then
\* found under that hash carries exactly the key bytes, the metadata and the
\* current block, the other entries being untouched; so every entry ever
\* stored has a non-zero hash, its own, and non-empty key bytes.
C11_KeyAdmissionAndRoundTrip ==
    /\ [](\A h \in DOMAIN VerificationKeys :
             /\ NonZero(h)
             /\ VerificationKeys[h].program_hash = h
             /\ Len(VerificationKeys[h].key_bytes) > 0)
    /\ [][\A c \in AllAddKeyCalls :
             AddKeyStep(c) =>
                /\ (~NonZero(c[1]) \/ Len(c[2]) = 0) =>
                      /\ ret'.result # Ok
                      /\ VerificationKeys' = VerificationKeys
                /\ (NonZero(c[1]) /\ Len(c[2]) \in 1..MaxKeySize) =>
                      /\ ret'.result = Ok
                      /\ DOMAIN VerificationKeys' = DOMAIN VerificationKeys \cup {c[1]}
                      /\ VerificationKeys'[c[1]] =
                            [program_hash |-> c[1], key_bytes |-> c[2],
                             added_at |-> now, metadata |-> c[3]]
                      /\ \A h \in DOMAIN VerificationKeys \ {c[1]} :
                            VerificationKeys'[h] = VerificationKeys[h]]_vars

\* C11 witness: a key registered under a hash whose only non-zero byte
\* is the last, with other key bytes and metadata, at a later block, next
\* to a key under another hash.
C11_Witness ==
    /\ ret.op = "add_verification_key"
    /\ ret.result = Ok
    /\ DOMAIN VerificationKeys = {KeyedHash, TailHash}
    /\ VerificationKeys[TailHash].key_bytes = <<5>>
    /\ VerificationKeys[TailHash].metadata = Some(<<3>>)
    /\ VerificationKeys[TailHash].added_at = now
    /\ VerificationKeys[KeyedHash].added_at < now

\* the program hash verify_message resolves for the stored message h
ResolvedHash(h) == compute_program_hash(Messages[h])

\* C12 as stated: a program is cached with use_count 0, and each
\* verify_message that succeeds in the engine for a message whose resolved
\* program hash is cached adds 1 to the use_count of that entry, so that the
\* use_count is the number of such verifications since the program was
\* cached.
C12_UseCountCountsVerifications ==
    [][/\ (Idle /\ ret'.op = "cache_program") =>
             \A ph \in DOMAIN ProgramCache' :
                ProgramCache'[ph].use_count = 0
                   \/ (ph \in DOMAIN ProgramCache /\ ProgramCache'[ph] = ProgramCache[ph])
       /\ \A h \in DOMAIN Messages :
             (/\ VerifyStep(h)
              /\ ret'.result = Ok
              /\ ret'.engine = "invoked"
              /\ ResolvedHash(h) \in DOMAIN ProgramCache) =>
                /\ ResolvedHash(h) \in DOMAIN ProgramCache'
                /\ ProgramCache'[ResolvedHash(h)].use_count =
                      ProgramCache[ResolvedHash(h)].use_count + 1]_vars

\* what the engine does for the stored message h, whatever the backend says
EngineRun(h) ==
    verify_proof(context_of(Messages[h]), params_of(Messages[h]), <<"Ok", TRUE>>)

\* C13 as stated: when the engine invokes the backend for a message, the
\* canonical statement of the message (origin chain, destination chain,
\* payload, nonce, timestamp) is among the arguments presented to the
\* backend; so two messages with the same proof and the same key that
\* differ in one of those fields present different arguments.
C13_BackendSeesStatement ==
    /\ \A h \in DOMAIN Messages :
          (Verifiable(h) /\ EngineRun(h).invoked) =>
             \E i \in DOMAIN EngineRun(h).presented :
                EngineRun(h).presented[i] = input(params_of(Messages[h]))
    /\ \A h1, h2 \in DOMAIN Messages :
          (/\ Verifiable(h1) /\ EngineRun(h1).invoked
           /\ Verifiable(h2) /\ EngineRun(h2).invoked
           /\ input(params_of(Messages[h1])) # input(params_of(Messages[h2]))) =>
             EngineRun(h1).presented # EngineRun(h2).presented

\* the five fields of the statement
StatementFields(params) ==
    <<params.from_chain, params.to_chain, params.payload, params.nonce,
      params.timestamp>>

\* the bytes lie in the order origin, destination, payload length, payload,
\* nonce, timestamp, every integer in 8 big-endian bytes
LaidOut(bytes, params) ==
    LET n == Len(params.payload)
    IN  /\ Len(bytes) = 40 + n
        /\ SubSeq(bytes, 1, 8) = to_be_bytes(params.from_chain)
        /\ SubSeq(bytes, 9, 16) = to_be_bytes(params.to_chain)
        /\ SubSeq(bytes, 17, 24) = to_be_bytes(n)
        /\ SubSeq(bytes, 25, 24 + n) = params.payload
        /\ SubSeq(bytes, 25 + n, 32 + n) = to_be_bytes(params.nonce)
        /\ SubSeq(bytes, 33 + n, 40 + n) = to_be_bytes(params.timestamp)

\* C14: the statement built from (origin, destination, payload, nonce,
\* timestamp) lays the fields out in that order, each integer in 8
\* big-endian bytes and the payload behind its length; two records with the
\* same five fields give the same bytes and two records that differ in a
\* field give different bytes.
C14_StatementEncodingInjective ==
    probe.stage = "built" =>
       /\ LaidOut(probe.left_input, probe.left)
       /\ LaidOut(probe.right_input, probe.right)
       /\ (StatementFields(probe.left) = StatementFields(probe.right)
              <=> probe.left_input = probe.right_input)

\* C14 witness: two statements that differ in the nonce only, 0 and 256,
\* encoded to different bytes.
C14_Witness ==
    /\ probe.stage = "built"
    /\ probe.left.nonce = 0
    /\ probe.right = [probe.left EXCEPT !.nonce = 256]
    /\ probe.left.payload = <<1, 0>>
    /\ probe.left_input # probe.right_input

BadChain(params) ==
    params.from_chain > MaxChainValue \/ params.to_chain > MaxChainValue
BadTimestamp(params) ==
    params.timestamp < TimestampMin \/ params.timestamp > TimestampMax
Refused(out, kind) ==
    out.result = VErr(kind) /\ ~out.invoked /\ out.presented = <<>>

\* C15: verify_proof answers InvalidProofFormat for empty proof bytes,
\* whatever the chain ids and the timestamp; else InvalidInput for a
\* from_chain or to_chain above 2; else InvalidInput for a timestamp outside
\* [1600000000, 2000000000], both ends being inside; and in these three
\* cases the backend is not invoked.
C15_InputChecksInOrder ==
    probe.stage = "returned" =>
       LET p == probe.params
           out == probe.out
       IN  /\ Len(p.proof) = 0 => Refused(out, "InvalidProofFormat")
           /\ (Len(p.proof) > 0 /\ BadChain(p)) => Refused(out, "InvalidInput")
           /\ (Len(p.proof) > 0 /\ ~BadChain(p) /\ BadTimestamp(p)) =>
                  Refused(out, "InvalidInput")
           /\ (Len(p.proof) > 0 /\ ~BadChain(p) /\ ~BadTimestamp(p)) =>
                  out.result # VErr("InvalidInput")

\* C15 witness: empty proof bytes with an unknown origin chain and a
\* timestamp below the window, answered with InvalidProofFormat.
C15_Witness ==
    /\ probe.stage = "returned"
    /\ probe.params.proof = <<>>
    /\ probe.params.from_chain = Unknown
    /\ probe.params.timestamp = TimestampMin - 1
    /\ probe.out.result = VErr("InvalidProofFormat")
    /\ ~probe.out.invoked

\* the result the specification assigns to an answer of the backend: by
\* the category of the error the backend reports
CategorizedResult(backend) ==
    IF backend = <<"Ok", TRUE>> THEN VOk
    ELSE IF backend = <<"Ok", FALSE>> THEN VErr("VerificationFailed")
    ELSE IF backend[2] = ProgramDiag THEN VErr("InvalidProofFormat")
    ELSE IF backend[2] = InputDiag THEN VErr("InvalidInput")
    ELSE VSp1Error(backend[2])

\* C16 as stated: when the engine has invoked the backend, true gives
\* success, false gives VerificationFailed, a program/format error reported
\* by the backend gives InvalidProofFormat, a statement/input error gives
\* InvalidInput, and any other backend error gives the backend error with
\* its diagnostic bytes.
C16_BackendOutcomesByCategory ==
    (probe.stage = "returned" /\ probe.out.invoked) =>
       probe.out.result = CategorizedResult(probe.backend)

\* C17 as stated: the error verify_message returns tells which kind of
\* VerificationError occurred: no two kinds are surfaced as the same error,
\* and an InvalidInput caused by the timestamp alone is not surfaced as a
\* chain-id error.
C17_ErrorKindSurfaced ==
    /\ probe.stage = "surfaced" =>
          \A e \in VerificationErrors :
             map_error(e) = probe.surfaced => e[1] = probe.error[1]
    /\ (/\ probe.stage = "returned"
        /\ probe.error = VErr("InvalidInput")
        /\ ~BadChain(probe.params)) =>
          probe.surfaced # Err("InvalidChainId")

\* C18: a verify_message on an unknown hash returns MessageNotFound, on a
\* message that is not Pending InvalidStatusTransition, on a Pending message
\* with a proof but no registered key InvalidKey; each of them leaves
\* Messages, Nonces, VerificationKeys and ProgramCache as they were, so the
\* message without key is still Pending; and once its key is registered, a
\* call on a message that earlier calls did not get to the engine reaches
\* the engine.
C18_EarlyFailuresChangeNothing ==
    [][\A h \in (DOMAIN Messages) \cup {NoHash} :
          VerifyStep(h) =>
             /\ h \notin DOMAIN Messages =>
                   /\ ret'.result = Err("MessageNotFound")
                   /\ UNCHANGED <<Messages, Nonces, VerificationKeys, ProgramCache>>
             /\ (h \in DOMAIN Messages /\ Messages[h].status # Pending) =>
                   /\ ret'.result = InvalidStatusTransition
                   /\ UNCHANGED <<Messages, Nonces, VerificationKeys, ProgramCache>>
             /\ (/\ h \in DOMAIN Messages
                 /\ Messages[h].status = Pending
                 /\ IsSome(Messages[h].proof)
                 /\ ResolvedHash(h) \notin DOMAIN VerificationKeys) =>
                   /\ ret'.result = Err("InvalidKey")
                   /\ UNCHANGED <<Messages, Nonces, VerificationKeys, ProgramCache>>
                   /\ Messages'[h].status = Pending
             /\ (/\ h \in called \ judged
                 /\ Verifiable(h)) =>
                   ret'.engine # "skipped"]_vars

\* C18 witness: a call refused with InvalidKey on a message submitted
\* inside the timestamp window, which is still Pending, while another
\* message has been judged with the key of its own program hash.
C18_Witness ==
    /\ ret.op = "verify_message"
    /\ ret.result = Err("InvalidKey")
    /\ ret.hash \in DOMAIN Messages
    /\ Messages[ret.hash].status = Pending
    /\ Messages[ret.hash].timestamp >= TimestampMin
    /\ ResolvedHash(ret.hash) \notin DOMAIN VerificationKeys
    /\ judged # {}

\* the order of two u64 values
ULess(a, b) == IF (a >= 0) = (b >= 0) THEN a < b ELSE a >= 0

\* C19 as stated: no call stores a smaller counter for an (origin chain,
\* account) pair than the pair had, also not when the counter is at the
\* maximum u64 value: issuing the next nonce then fails without writing.
C19_NonceCounterNeverWraps ==
    [][\A c \in ChainIds, a \in Accounts :
          ~ULess(Nonces'[c][a], Nonces[c][a])]_vars

\* a stored message submitted below the timestamp window, with a proof, the
\* key of its program hash being registered
EarlyWithKey(h) ==
    /\ Messages[h].timestamp < TimestampMin
    /\ IsSome(Messages[h].proof)
    /\ ResolvedHash(h) \in DOMAIN VerificationKeys

NeverVerifiedIfEarly ==
    \A h \in DOMAIN Messages :
       Messages[h].timestamp < TimestampMin => Messages[h].status # Verified

\* C20 as stated: a message submitted at a block number below 1600000000
\* is never Verified, and every verify_message on such a message with a
\* proof and a registered key returns InvalidChainId without invoking the
\* backend.
C20_EarlyMessageAlwaysInvalidInput ==
    /\ []NeverVerifiedIfEarly
    /\ [][\A h \in DOMAIN Messages :
             (VerifyStep(h) /\ EarlyWithKey(h)) =>
                /\ ret'.result = Err("InvalidChainId")
                /\ ret'.engine = "rejected"]_vars

\* C20 amended: a message submitted at a block number below 1600000000 is
\* never Verified; the first verify_message on such a message with a proof
\* and a registered key returns without invoking the backend and stores it
\* as Failed, with InvalidChainId when the proof bytes are not empty and
\* with InvalidProof when they are; every later call on it returns
\* InvalidStatusTransition and changes nothing.
C20_EarlyMessageNeverVerified ==
    /\ []NeverVerifiedIfEarly
    /\ [][\A h \in DOMAIN Messages :
             (VerifyStep(h) /\ EarlyWithKey(h)) =>
                IF Messages[h].status # Pending
                THEN /\ ret'.result = InvalidStatusTransition
                     /\ Messages' = Messages
                ELSE /\ ret'.engine = "rejected"
                     /\ Messages'[h].status = Failed
                     /\ ret'.result =
                           IF Len(Unwrap(Messages[h].proof)) = 0
                           THEN Err("InvalidProof")
                           ELSE Err("InvalidChainId")]_vars

\* C20 witness: a message with a proof that deserializes, submitted one
\* block below the window, refused with InvalidChainId before the backend
\* and stored as Failed.
C20_Witness ==
    /\ ret.op = "verify_message"
    /\ ret.result = Err("InvalidChainId")
    /\ ret.engine = "rejected"
    /\ Messages[ret.hash].timestamp = TimestampMin - 1
    /\ Messages[ret.hash].proof = Some(GoodProof)
    /\ Messages[ret.hash].status = Failed

\* a stored message from Ethereum to Ethereum with a proof attached
EthereumLoop(h) ==
    /\ Messages[h].from_chain = Ethereum
    /\ Messages[h].to_chain = Ethereum
    /\ IsSome(Messages[h].proof)

\* C21: the resolved program hash of a stored message has the origin chain
\* id in byte 0, the destination chain id in byte 1 and 0 in every other
\* byte, so that of a message from Ethereum to Ethereum is the all-zero
\* hash; no key is ever registered under the all-zero hash; so such a
\* message with a proof is Pending in every reachable state and every
\* verify_message on it returns InvalidKey and changes nothing.
C21_EthereumLoopStaysPending ==
    /\ [](\A h \in DOMAIN Messages :
             /\ ResolvedHash(h)[1] = Messages[h].from_chain
             /\ ResolvedHash(h)[2] = Messages[h].to_chain
             /\ \A i \in 3..HashLen : ResolvedHash(h)[i] = 0
             /\ EthereumLoop(h) =>
                   /\ ResolvedHash(h) = ZeroHash
                   /\ Messages[h].status = Pending)
    /\ [](ZeroHash \notin DOMAIN VerificationKeys)
    /\ [][\A h \in DOMAIN Messages :
             (VerifyStep(h) /\ EthereumLoop(h)) =>
                /\ ret'.result = Err("InvalidKey")
                /\ ret'.engine = "skipped"
                /\ Messages' = Messages]_vars

\* C21 witness: a message from Ethereum to Ethereum, submitted inside the
\* timestamp window with a proof that deserializes, refused with InvalidKey
\* while the key of another program hash is registered.
C21_Witness ==
    /\ ret.op = "verify_message"
    /\ ret.result = Err("InvalidKey")
    /\ ret.hash \in DOMAIN Messages
    /\ EthereumLoop(ret.hash)
    /\ Messages[ret.hash].proof = Some(GoodProof)
    /\ Messages[ret.hash].timestamp >= TimestampMin
    /\ Messages[ret.hash].status = Pending
    /\ KeyedHash \in DOMAIN VerificationKeys

\* C22: a verify_message(hash), whatever it returns, adds and removes no
\* message, leaves every message stored under another hash as it was,
\* changes at most the status of the message stored under hash (origin,
\* destination, sender, payload, nonce, timestamp and proof stay), and
\* leaves Nonces, VerificationKeys and ProgramCache as they were.
C22_VerifyWritesStatusOnly ==
    [][\A h \in (DOMAIN Messages) \cup {NoHash} :
          VerifyStep(h) =>
             /\ DOMAIN Messages' = DOMAIN Messages
             /\ \A k \in DOMAIN Messages :
                   /\ k # h => Messages'[k] = Messages[k]
                   /\ [Messages'[k] EXCEPT !.status = Messages[k].status] = Messages[k]
             /\ UNCHANGED <<Nonces, VerificationKeys, ProgramCache>>]_vars

\* C22 witness: a call that has verified one of two stored messages, the
\* other being Pending, while a program is cached.
C22_Witness ==
    /\ ret.op = "verify_message"
    /\ ret.result = Ok
    /\ ret.engine = "invoked"
    /\ Messages[ret.hash].status = Verified
    /\ Messages[ret.hash].proof = Some(GoodProof)
    /\ \E k \in DOMAIN Messages : k # ret.hash /\ Messages[k].status = Pending
    /\ ProgramCache # EmptyMap

====
